---- MODULE Spec2Model ----
(***************************************************************************)
(* StringSheet: Android string resources <-> spreadsheet cells.            *)
(*                                                                         *)
(* A Python str is a sequence of one-character strings, so that indexing,  *)
(* partition, startswith and lexicographic order are computed and not      *)
(* assumed.  A cell or text that may be None is a record                   *)
(* [none, s]: None is [none |-> TRUE, s |-> <<>>].  A Python dict is a     *)
(* function; d[k] = v on a dict is (k :> v) @@ d.                          *)
(***************************************************************************)
EXTENDS Integers, Sequences, FiniteSets, TLC

VARIABLES
    \* parser.create_spreadsheet_values / parser.parse_spreadsheet_values
    strings, values, strings_by_language, sheet_pc,
    \* parser._is_language_valid
    language, language_valid, lang_pc,
    \* parser.parse_file
    source, file_strings, file_pc,
    \* parser.parse_resources
    directory, child_index, resources_strings, resources_pc,
    \* model.Resources
    _strings, _arrays, _plurals, added, lookup,
    \* main.upload / main.download
    main_pc, args, spreadsheet_id, calls, raised

sheetVars == <<strings, values, strings_by_language, sheet_pc>>
langVars == <<language, language_valid, lang_pc>>
fileVars == <<source, file_strings, file_pc>>
resourcesVars == <<directory, child_index, resources_strings, resources_pc>>
modelVars == <<_strings, _arrays, _plurals, added, lookup>>
mainVars == <<main_pc, args, spreadsheet_id, calls, raised>>
vars == <<sheetVars, langVars, fileVars, resourcesVars, modelVars, mainVars>>

-----------------------------------------------------------------------------
(* Python values *)

None == [none |-> TRUE, s |-> <<>>]
Str(s) == [none |-> FALSE, s |-> s]
EmptyDict == <<>>

\* `not x` for x a str or None
Falsy(cell) == cell.none \/ cell.s = <<>>

\* The characters the inputs use, in code point order.
Alphabet ==
    <<"\t", "\n", " ", "-", "?", "@", "B", "H", "S", "U", "X", "Y",
      "a", "b", "c", "d", "e", "f", "i", "l", "m", "n", "o", "r", "s",
      "t", "u", "v", "w", "x">>

Ord(c) == CHOOSE i \in 1..Len(Alphabet) : Alphabet[i] = c

\* s < t on Python str
StrLess(s, t) ==
    \E k \in 1..Len(t) :
        /\ \A j \in 1..(k - 1) : j <= Len(s) /\ s[j] = t[j]
        /\ \/ k = Len(s) + 1
           \/ k <= Len(s) /\ Ord(s[k]) < Ord(t[k])

RECURSIVE sorted(_)
\* sorted(S) for S a collection of distinct str
sorted(S) ==
    IF S = {} THEN <<>>
    ELSE LET m == CHOOSE x \in S : \A y \in S \ {x} : StrLess(x, y)
         IN  <<m>> \o sorted(S \ {m})

\* sub in s, for str s
Contains(s, sub) ==
    \E i \in 1..(Len(s) - Len(sub) + 1) : SubSeq(s, i, i + Len(sub) - 1) = sub

s_id == <<"i", "d">>
s_comment == <<"c", "o", "m", "m", "e", "n", "t">>
s_default == <<"d", "e", "f", "a", "u", "l", "t">>
s_fr == <<"f", "r">>
s_de == <<"d", "e">>

-----------------------------------------------------------------------------
(* parser.py: the table serializer *)

get_languages_unsorted(d) ==
    LET S == DOMAIN d \ {s_default}
        RECURSIVE rev(_)
        rev(T) == IF T = {} THEN <<>>
                  ELSE LET m == CHOOSE x \in T : \A y \in T \ {x} : StrLess(y, x)
                       IN  <<m>> \o rev(T \ {m})
    IN  rev(S)

get_languages(d) == sorted(DOMAIN d \ {s_default})

RECURSIVE row_cells(_, _, _)
\* the inner loop of create_spreadsheet_values: one cell per language
row_cells(d, string_id, languages) ==
    IF languages = <<>> THEN <<>>
    ELSE LET language_strings == d[Head(languages)]
             cell == IF string_id \in DOMAIN language_strings
                         THEN language_strings[string_id]
                         ELSE None
         IN  <<cell>> \o row_cells(d, string_id, Tail(languages))

create_spreadsheet_values(d) ==
    LET languages == get_languages(d)
        column_names ==
            <<Str(s_id), Str(s_comment), Str(s_default)>>
                \o [i \in 1..Len(languages) |-> Str(languages[i])]
        default_strings == d[s_default]
        ids == sorted(DOMAIN default_strings)
        column(string_id) ==
            <<Str(string_id), None, default_strings[string_id]>>
                \o row_cells(d, string_id, languages)
    IN  <<column_names>> \o [i \in 1..Len(ids) |-> column(ids[i])]

RECURSIVE scan_rows(_, _, _)
\* the inner loop of parse_spreadsheet_values over values[1:], for the column
\* at (1-based) position lang_index; acc is language_strings
scan_rows(rows, lang_index, acc) ==
    IF rows = <<>> THEN acc
    ELSE LET row == Head(rows)
             column_count == Len(row)
         IN  IF column_count < 3 THEN acc
             ELSE LET translation == IF column_count >= lang_index
                                         THEN row[lang_index]
                                         ELSE Str(<<>>)
                      string_id == row[1]
                      default_text == row[3]
                  IN  IF Falsy(string_id) \/ Falsy(default_text) THEN acc
                      ELSE IF Contains(string_id.s, <<" ">>) THEN acc
                      ELSE scan_rows(Tail(rows), lang_index,
                                     (string_id :> translation) @@ acc)

RECURSIVE scan_rows_no_break(_, _, _)
scan_rows_no_break(rows, lang_index, acc) ==
    IF rows = <<>> THEN acc
    ELSE LET row == Head(rows)
             column_count == Len(row)
         IN  IF column_count < 3 THEN acc
             ELSE LET translation == IF column_count >= lang_index
                                         THEN row[lang_index]
                                         ELSE Str(<<>>)
                      string_id == row[1]
                      default_text == row[3]
                  IN  IF Falsy(string_id) \/ Falsy(default_text)
                          THEN scan_rows_no_break(Tail(rows), lang_index, acc)
                      ELSE IF Contains(string_id.s, <<" ">>) THEN acc
                      ELSE scan_rows_no_break(Tail(rows), lang_index,
                                              (string_id :> translation) @@ acc)

RECURSIVE scan_columns(_, _, _)
\* the outer loop of parse_spreadsheet_values, from column lang_index on
scan_columns(v, lang_index, acc) ==
    IF lang_index > Len(v[1]) THEN acc
    ELSE LET lang == v[1][lang_index]
             language_strings == scan_rows(Tail(v), lang_index, EmptyDict)
         IN  scan_columns(v, lang_index + 1, (lang :> language_strings) @@ acc)

parse_spreadsheet_values_skip_default(v) == scan_columns(v, 4, EmptyDict)

parse_spreadsheet_values_no_break(v) ==
    LET RECURSIVE cols(_, _)
        cols(lang_index, acc) ==
            IF lang_index > Len(v[1]) THEN acc
            ELSE cols(lang_index + 1,
                      (v[1][lang_index] :>
                          scan_rows_no_break(Tail(v), lang_index, EmptyDict)) @@ acc)
    IN  cols(3, EmptyDict)

\* range(2, len(title_row)) is the 1-based positions 3..Len(title_row)
parse_spreadsheet_values(v) == scan_columns(v, 3, EmptyDict)

-----------------------------------------------------------------------------
(* Components that a specification leaves alone *)

SheetIdle ==
    /\ strings = EmptyDict /\ values = <<>>
    /\ strings_by_language = EmptyDict /\ sheet_pc = "idle"
LangIdle == language = <<>> /\ language_valid = FALSE /\ lang_pc = "idle"
FileIdle == source = <<>> /\ file_strings = EmptyDict /\ file_pc = "idle"
ResourcesIdle ==
    /\ directory = <<>> /\ child_index = 0
    /\ resources_strings = EmptyDict /\ resources_pc = "idle"
ModelIdle ==
    /\ _strings = EmptyDict /\ _arrays = EmptyDict /\ _plurals = EmptyDict
    /\ added = {} /\ lookup = <<>>
MainIdle ==
    /\ main_pc = "idle" /\ args = <<>> /\ spreadsheet_id = <<>>
    /\ calls = <<>> /\ raised = "idle"

-----------------------------------------------------------------------------
(* Export and import of the sheet: inputs *)

MaxIds == 2
MaxRows == 3

ExportIds == {<<>>, <<"a">>, <<"b">>, <<"a", " ", "b">>}
DefaultTexts == {Str(<<>>), Str(<<"H">>)}
LanguageTexts == {Str(<<"B">>)}
ExportLanguages == {s_fr, s_de}

DictsOver(ids, texts) ==
    UNION {[S -> texts] : S \in {T \in SUBSET ids : Cardinality(T) <= MaxIds}}

\* {language: {id: text}} as parse_resources returns it, with and without
\* the "default" language
StringsInputs ==
    UNION {
        {g : g \in [L -> DictsOver(ExportIds, LanguageTexts)]}
        \cup {(s_default :> d) @@ g :
                d \in DictsOver(ExportIds, DefaultTexts),
                g \in [L -> DictsOver(ExportIds, LanguageTexts)]}
        : L \in SUBSET ExportLanguages}

GoodIds == {<<"a">>, <<"b">>, <<"a", "\t", "b">>}
IdCells == {Str(<<>>), Str(<<"a", " ", "b">>)} \cup {Str(i) : i \in GoodIds}
TranslationCells == {None, Str(<<"Y">>)}

\* rows as translators leave them: short rows, rows without an id or a
\* default text, ids with a space or a tab, missing translations
RowInputs ==
    {<<>>, <<Str(<<"b">>), None>>}
    \cup {<<i, None, Str(<<"X">>)>> : i \in IdCells}
    \cup {<<Str(<<"a">>), None, None>>}
    \cup {<<Str(i), None, Str(<<"X">>), t>> : i \in GoodIds, t \in TranslationCells}
    \cup {<<Str(<<>>), None, None, None>>,
          <<Str(<<"a", " ", "b">>), None, Str(<<"X">>), Str(<<"Y">>)>>,
          <<Str(<<"a">>), None, Str(<<>>), Str(<<"Y">>)>>}

TitleRows ==
    {<<Str(s_id), Str(s_comment)>>,
     <<Str(s_id), Str(s_comment), Str(s_default)>>,
     <<Str(s_id), Str(s_comment), Str(s_default), Str(s_fr)>>,
     <<Str(s_id), Str(s_comment), Str(s_default), Str(s_fr), Str(s_de)>>}

RowSeqs == UNION {[1..n -> RowInputs] : n \in 0..MaxRows}

SheetInputs == {<<t>> \o r : t \in TitleRows, r \in RowSeqs}

-----------------------------------------------------------------------------
(* Export and import of the sheet: operations *)

otherThanSheet == <<langVars, fileVars, resourcesVars, modelVars, mainVars>>

\* main.upload's values = parser.create_spreadsheet_values(strings);
\* strings['default'] raises KeyError when there is no default language
CreateSpreadsheetValues ==
    /\ sheet_pc = "strings"
    /\ IF s_default \in DOMAIN strings
           THEN values' = create_spreadsheet_values(strings)
                /\ sheet_pc' = "values"
           ELSE values' = values /\ sheet_pc' = "KeyError"
    /\ UNCHANGED <<strings, strings_by_language, otherThanSheet>>

\* parser.parse_spreadsheet_values(values)
ParseSpreadsheetValues ==
    /\ sheet_pc = "values"
    /\ strings_by_language' = parse_spreadsheet_values(values)
    /\ sheet_pc' = "parsed"
    /\ UNCHANGED <<strings, values, otherThanSheet>>

InitExport ==
    /\ strings \in StringsInputs /\ values = <<>>
    /\ strings_by_language = EmptyDict /\ sheet_pc = "strings"
    /\ LangIdle /\ FileIdle /\ ResourcesIdle /\ ModelIdle /\ MainIdle

NextExport == CreateSpreadsheetValues \/ ParseSpreadsheetValues

\* export, then import of the exported cells
SpecExport == InitExport /\ [][NextExport]_vars

InitImport ==
    /\ strings = EmptyDict /\ values \in SheetInputs
    /\ strings_by_language = EmptyDict /\ sheet_pc = "values"
    /\ LangIdle /\ FileIdle /\ ResourcesIdle /\ ModelIdle /\ MainIdle

NextImport == ParseSpreadsheetValues

\* import of a sheet as translators left it
SpecImport == InitImport /\ [][NextImport]_vars

-----------------------------------------------------------------------------
(* Claims on the export *)

\* C1: for a strings dictionary with "default", the exported table is the
\* header id, comment, default and the other languages in alphabetical
\* order, then one row per id of the default dictionary in alphabetical
\* order and no other row; the row of id k is k, None, default[k] and, per
\* language in header order, its text for k, or None when it lacks k.
C1_ExportTable ==
    sheet_pc = "values" =>
        LET title_row == values[1]
            default_strings == strings[s_default]
            others == DOMAIN strings \ {s_default}
        IN  /\ Len(title_row) = 3 + Cardinality(others)
            /\ SubSeq(title_row, 1, 3) = <<Str(s_id), Str(s_comment), Str(s_default)>>
            /\ {title_row[j] : j \in 4..Len(title_row)} = {Str(l) : l \in others}
            /\ \A j \in 4..(Len(title_row) - 1) :
                   StrLess(title_row[j].s, title_row[j + 1].s)
            /\ Len(values) = 1 + Cardinality(DOMAIN default_strings)
            /\ {values[r][1] : r \in 2..Len(values)}
                   = {Str(k) : k \in DOMAIN default_strings}
            /\ \A r \in 2..(Len(values) - 1) :
                   StrLess(values[r][1].s, values[r + 1][1].s)
            /\ \A r \in 2..Len(values) :
                   LET row == values[r]
                       k == row[1].s
                   IN  /\ Len(row) = Len(title_row)
                       /\ row[2] = None
                       /\ row[3] = default_strings[k]
                       /\ \A j \in 4..Len(title_row) :
                              row[j] = IF k \in DOMAIN strings[title_row[j].s]
                                           THEN strings[title_row[j].s][k]
                                           ELSE None

\* two languages out of order in the dictionary's key set, two default ids,
\* an id only fr has, a default id de lacks
C1_Witness ==
    /\ sheet_pc = "values"
    /\ DOMAIN strings = {s_default, s_fr, s_de}
    /\ Cardinality(DOMAIN strings[s_default]) = 2
    /\ \E k \in DOMAIN strings[s_fr] : k \notin DOMAIN strings[s_default]
    /\ \E k \in DOMAIN strings[s_default] : k \notin DOMAIN strings[s_de]

\* the strings dictionaries the round trip is claimed for
RoundTripInput ==
    /\ s_default \in DOMAIN strings
    /\ \A k \in DOMAIN strings[s_default] :
           /\ k # <<>>
           /\ ~Contains(k, <<" ">>)
           /\ ~Falsy(strings[s_default][k])

RoundTrip(missing) ==
    (sheet_pc = "parsed" /\ RoundTripInput) =>
        /\ DOMAIN strings_by_language = {Str(l) : l \in DOMAIN strings}
        /\ \A l \in DOMAIN strings :
               /\ DOMAIN strings_by_language[Str(l)]
                      = {Str(k) : k \in DOMAIN strings[s_default]}
               /\ \A k \in DOMAIN strings[s_default] :
                      strings_by_language[Str(l)][Str(k)]
                          = IF k \in DOMAIN strings[l] THEN strings[l][k]
                                                       ELSE missing

\* C2, as claimed: the import of the exported table has the keys "default"
\* and the input's languages, and each maps every default id to the
\* language's text, or to the empty string when the language lacks the id.
C2_RoundTripEmptyString == RoundTrip(Str(<<>>))

\* C2, amended: ... or to None when the language lacks the id.
C2_RoundTripNone == RoundTrip(None)

C2_Witness ==
    /\ sheet_pc = "parsed" /\ RoundTripInput
    /\ Cardinality(DOMAIN strings[s_default]) = 2
    /\ s_fr \in DOMAIN strings
    /\ \E k \in DOMAIN strings[s_default] : k \notin DOMAIN strings[s_fr]
    /\ \E k \in DOMAIN strings[s_default] : k \in DOMAIN strings[s_fr]

-----------------------------------------------------------------------------
(* Claims on the import *)

data_rows == Tail(values)

TerminatingRow(row) == Len(row) < 3 \/ Falsy(row[1]) \/ Falsy(row[3])

\* the position in data_rows of the first terminating row, or one past the end
FirstTerminating ==
    CHOOSE r \in 1..(Len(data_rows) + 1) :
        /\ r <= Len(data_rows) => TerminatingRow(data_rows[r])
        /\ \A q \in 1..(r - 1) : ~TerminatingRow(data_rows[q])

LanguageColumns == 3..Len(values[1])

\* C3: every language column's mapping has ids (and texts) only from the
\* data rows before the first terminating row (fewer than 3 cells, an empty
\* id, an empty default text), also when later rows are well-formed, and
\* all languages have the same set of ids.
C3_ImportStopsAtTerminatingRow ==
    sheet_pc = "parsed" =>
        /\ DOMAIN strings_by_language = {values[1][j] : j \in LanguageColumns}
        /\ \A j \in LanguageColumns :
               \A i \in DOMAIN strings_by_language[values[1][j]] :
                   \E r \in 1..(FirstTerminating - 1) :
                       /\ data_rows[r][1] = i
                       /\ \/ \E q \in LanguageColumns :
                                 /\ values[1][q] = values[1][j]
                                 /\ Len(data_rows[r]) >= q
                                 /\ strings_by_language[values[1][j]][i] = data_rows[r][q]
                          \/ strings_by_language[values[1][j]][i] = Str(<<>>)
        /\ \A j, q \in LanguageColumns :
               DOMAIN strings_by_language[values[1][j]]
                   = DOMAIN strings_by_language[values[1][q]]

\* a data row, then a terminating row, then a well-formed row with a new id
C3_Witness ==
    /\ sheet_pc = "parsed"
    /\ Len(values[1]) >= 4
    /\ Len(data_rows) = 3
    /\ FirstTerminating = 2
    /\ Len(data_rows[3]) = 4
    /\ ~TerminatingRow(data_rows[3])
    /\ data_rows[3][1] = Str(<<"b">>)
    /\ DOMAIN strings_by_language[Str(s_fr)] = {Str(<<"a">>)}

HasWhitespace(cell) ==
    \E c \in {<<" ">>, <<"\t">>, <<"\n">>} : Contains(cell.s, c)

\* C4: a data row whose id has a whitespace character (a space, a tab, a
\* newline) ends the scan: no language's mapping has an entry from that row
\* or a later one.
C4_WhitespaceIdTerminates ==
    sheet_pc = "parsed" =>
        \A w \in 1..Len(data_rows) :
            (Len(data_rows[w]) >= 1 /\ HasWhitespace(data_rows[w][1])) =>
                \A j \in LanguageColumns :
                    \A i \in DOMAIN strings_by_language[values[1][j]] :
                        \E r \in 1..(w - 1) : data_rows[r][1] = i

-----------------------------------------------------------------------------
(* parser.py: language codes *)

\* s.partition(sep): the parts before and after the first occurrence of sep
partition(s, sep) ==
    LET at == {i \in 1..(Len(s) - Len(sep) + 1) :
                   SubSeq(s, i, i + Len(sep) - 1) = sep}
    IN  IF at = {} THEN <<s, <<>>, <<>>>>
        ELSE LET i == CHOOSE x \in at : \A y \in at : x <= y
             IN  <<SubSeq(s, 1, i - 1), sep, SubSeq(s, i + Len(sep), Len(s))>>

_is_language_valid_any_country(code) ==
    IF code = s_default THEN TRUE
    ELSE Len(partition(code, <<"-", "r">>)[1]) = 2

_is_language_valid(code) ==
    IF code = s_default THEN TRUE
    ELSE LET parts == partition(code, <<"-", "r">>)
             lang == parts[1]
             sep == parts[2]
             country == parts[3]
         IN  IF sep # <<>> /\ (country = <<>> \/ Len(country) # 2)
                 THEN FALSE
                 ELSE Len(lang) = 2

MaxCodeLen == 6

CodeChars == {"-", "r", "e", "n"}

LanguageInputs ==
    {s_default} \cup UNION {[1..n -> CodeChars] : n \in 0..MaxCodeLen}

otherThanLang == <<sheetVars, fileVars, resourcesVars, modelVars, mainVars>>

IsLanguageValid ==
    /\ lang_pc = "call"
    /\ language_valid' = _is_language_valid(language)
    /\ lang_pc' = "return"
    /\ UNCHANGED <<language, otherThanLang>>

InitLanguage ==
    /\ language \in LanguageInputs /\ language_valid = FALSE /\ lang_pc = "call"
    /\ SheetIdle /\ FileIdle /\ ResourcesIdle /\ ModelIdle /\ MainIdle

NextLanguage == IsLanguageValid

SpecLanguage == InitLanguage /\ [][NextLanguage]_vars

s_sep == <<"-", "r">>

RegionForm(code) == Len(code) = 6 /\ SubSeq(code, 3, 4) = s_sep

\* C5, as claimed: a code is valid iff it is "default", or 2 characters
\* long, or a 2-character base code, "-r" and a 2-character region code.
C5_LanguageValidIff ==
    lang_pc = "return" =>
        (language_valid <=>
            \/ language = s_default
            \/ Len(language) = 2
            \/ RegionForm(language))

\* C5, amended: ... where the 2-character code, or the base code, is not
\* "-r" itself.
C5_LanguageValidIffNotSeparator ==
    lang_pc = "return" =>
        (language_valid <=>
            \/ language = s_default
            \/ Len(language) = 2 /\ language # s_sep
            \/ RegionForm(language) /\ SubSeq(language, 1, 2) # s_sep)

\* a base code with a region is accepted
C5_Witness ==
    /\ lang_pc = "return" /\ language_valid
    /\ language = <<"e", "n", "-", "r", "n", "e">>

-----------------------------------------------------------------------------
(* parser.py: one XML file *)

\* An lxml element: tag, attrib (a dict of str), text (str or None) and the
\* child elements in document order.
Element(tag, attrib, text, children) ==
    [tag |-> tag, attrib |-> attrib, text |-> text, children |-> children]

s_true == <<"t", "r", "u", "e">>
s_false == <<"f", "a", "l", "s", "e">>
s_name == <<"n", "a", "m", "e">>
s_translatable == <<"t", "r", "a", "n", "s", "l", "a", "t", "a", "b", "l", "e">>

\* the upper-case letters the inputs use
lower_char(c) ==
    CASE c = "T" -> "t"
      [] c = "F" -> "f"
      [] OTHER -> c

\* str.lower()
lower(s) == [i \in 1..Len(s) |-> lower_char(s[i])]

\* element.get(key, default)
get(element, key, default) ==
    IF key \in DOMAIN element.attrib THEN element.attrib[key] ELSE default

_is_root_valid(root) ==
    IF root.tag # "resources" THEN FALSE
    ELSE lower(get(root, s_translatable, s_true)) = s_true

_is_string_valid(element) ==
    IF element.tag # "string" THEN FALSE
    ELSE IF s_name \notin DOMAIN element.attrib THEN FALSE
    ELSE lower(get(element, s_translatable, s_true)) = s_true

RECURSIVE collect_strings(_, _)
\* the dict comprehension of parse_file: a later element of the same name
\* replaces an earlier one
collect_strings(elements, acc) ==
    IF elements = <<>> THEN acc
    ELSE LET element == Head(elements)
         IN  collect_strings(
                 Tail(elements),
                 IF _is_string_valid(element)
                     THEN (element.attrib[s_name] :> element.text) @@ acc
                     ELSE acc)

parse_file(root) ==
    IF ~_is_root_valid(root) THEN EmptyDict
    ELSE collect_strings(root.children, EmptyDict)

MaxChildren == 2

AttribInputs(names) ==
    {n @@ tr :
        n \in {EmptyDict} \cup {(s_name :> x) : x \in names},
        tr \in {EmptyDict, (s_translatable :> s_false),
                (s_translatable :> <<"T", "r", "u", "e">>)}}

TextInputs ==
    {None, Str(<<"s">>), Str(<<"@", "s">>), Str(<<"?", "s">>)}

ChildInputs ==
    {Element(tag, attrib, text, <<>>) :
        tag \in {"string", "string-array"},
        attrib \in AttribInputs({<<"a">>, <<"b">>}),
        text \in TextInputs}

RootInputs ==
    {Element(tag, attrib, None, children) :
        tag \in {"resources", "menu"},
        attrib \in AttribInputs({}),
        children \in UNION {[1..n -> ChildInputs] : n \in 0..MaxChildren}}

otherThanFile == <<sheetVars, langVars, resourcesVars, modelVars, mainVars>>

\* parser.parse_file(source), on a source that etree.parse accepts
ParseFile ==
    /\ file_pc = "call"
    /\ file_strings' = parse_file(source)
    /\ file_pc' = "return"
    /\ UNCHANGED <<source, otherThanFile>>

InitFile ==
    /\ source \in RootInputs /\ file_strings = EmptyDict /\ file_pc = "call"
    /\ SheetIdle /\ LangIdle /\ ResourcesIdle /\ ModelIdle /\ MainIdle

NextFile == ParseFile

SpecFile == InitFile /\ [][NextFile]_vars

StartsWithSigil(text) ==
    ~text.none /\ Len(text.s) >= 1 /\ text.s[1] \in {"@", "?"}

\* the strings the claim keeps
ClaimedString(element) ==
    /\ element.tag = "string"
    /\ s_name \in DOMAIN element.attrib
    /\ ~(s_translatable \in DOMAIN element.attrib
            /\ lower(element.attrib[s_translatable]) = s_false)
    /\ ~StartsWithSigil(element.text)

\* C6: for a translatable resources root, parse_file returns name -> text
\* for exactly the immediate string children that have a name, are not
\* marked translatable="false" and whose text does not start with @ or ?.
C6_ParseFileSkipsReferences ==
    (file_pc = "return" /\ _is_root_valid(source)) =>
        LET kept == {i \in 1..Len(source.children) :
                         ClaimedString(source.children[i])}
        IN  /\ DOMAIN file_strings
                   = {source.children[i].attrib[s_name] : i \in kept}
            /\ \A i \in kept :
                   (\A j \in kept :
                        j > i => source.children[j].attrib[s_name]
                                     # source.children[i].attrib[s_name])
                   => file_strings[source.children[i].attrib[s_name]]
                          = source.children[i].text

-----------------------------------------------------------------------------
(* parser.py: a directory of files, a res directory of directories *)

\* s.endswith(suffix)
endswith(s, suffix) ==
    Len(s) >= Len(suffix)
        /\ SubSeq(s, Len(s) - Len(suffix) + 1, Len(s)) = suffix

\* s.startswith(prefix)
startswith(s, prefix) ==
    Len(s) >= Len(prefix) /\ SubSeq(s, 1, Len(prefix)) = prefix

s_xml == <<".", "x", "m", "l">>
s_donottranslate_xml == <<"d", "o", "n", "o", "t", "t", "r", "a", "n", "s", "l", "a", "t", "e", ".", "x", "m", "l">>
s_strings_xml == <<"s", "t", "r", "i", "n", "g", "s", ".", "x", "m", "l">>
s_notes_txt == <<"n", "o", "t", "e", "s", ".", "t", "x", "t">>
s_values == <<"v", "a", "l", "u", "e", "s">>

_is_file_valid(file) == endswith(file, s_xml) /\ file # s_donottranslate_xml

RECURSIVE update_from_files(_, _)
\* the loop of parse_directory: strings.update(parse_file(file_name)); a
\* file is [name, root], root being what etree.parse reads from it
update_from_files(files, acc) ==
    IF files = <<>> THEN acc
    ELSE LET file == Head(files)
         IN  update_from_files(
                 Tail(files),
                 IF _is_file_valid(file.name)
                     THEN parse_file(file.root) @@ acc
                     ELSE acc)

\* a directory is [name, files], files being its listing in os.listdir order
parse_directory(dir) == update_from_files(dir.files, EmptyDict)

\* the language parse_resources reads from the name of a child directory
child_language(child_dir) ==
    IF child_dir = s_values THEN s_default
    ELSE partition(child_dir, <<"-">>)[3]

MaxDirs == 2

StringsRoot(text) ==
    Element("resources", EmptyDict, None,
            <<Element("string", (s_name :> <<"a">>), Str(text), <<>>)>>)

FilesInputs ==
    {<<>>,
     <<[name |-> s_strings_xml, root |-> StringsRoot(<<"X">>)]>>,
     <<[name |-> s_strings_xml, root |-> StringsRoot(<<"Y">>)]>>,
     <<[name |-> s_donottranslate_xml, root |-> StringsRoot(<<"X">>)],
       [name |-> s_notes_txt, root |-> StringsRoot(<<"Y">>)]>>}

ChildDirNames ==
    {s_values, <<"v", "a", "l", "u", "e", "s", "-", "f", "r">>, <<"v", "a", "l", "u", "e", "s", "-", "d", "e", "f", "a", "u", "l", "t">>, <<"v", "a", "l", "u", "e", "s", "x", "-", "f", "r">>, <<"v", "a", "l", "u", "e", "s", "-", "e">>, <<"l", "a", "y", "o", "u", "t">>}

\* the listings of a res directory: child directories of distinct names
DirectoryInputs ==
    UNION {
        {d \in [1..n -> [name : ChildDirNames, files : FilesInputs]] :
            \A i, j \in 1..n : i # j => d[i].name # d[j].name}
        : n \in 0..MaxDirs}

otherThanResources == <<sheetVars, langVars, fileVars, modelVars, mainVars>>

\* the body of the loop of parse_resources for one child; acc is strings
parse_resources_child(child, acc) ==
    LET lang == child_language(child.name)
        language_strings == parse_directory(child)
    IN  IF ~startswith(child.name, s_values) THEN acc
        ELSE IF ~_is_language_valid(lang) THEN acc
        ELSE IF language_strings = EmptyDict THEN acc
        ELSE (lang :> language_strings) @@ acc

RECURSIVE parse_resources_from(_, _)
parse_resources_from(listing, acc) ==
    IF listing = <<>> THEN acc
    ELSE parse_resources_from(Tail(listing),
                              parse_resources_child(Head(listing), acc))

\* parse_resources(directory), directory being its os.listdir
parse_resources(listing) == parse_resources_from(listing, EmptyDict)

\* one pass of the loop of parse_resources over os.listdir(directory)
ParseResourcesChild ==
    /\ resources_pc = "loop"
    /\ child_index < Len(directory)
    /\ resources_strings' =
           parse_resources_child(directory[child_index + 1], resources_strings)
    /\ child_index' = child_index + 1
    /\ UNCHANGED <<directory, resources_pc, otherThanResources>>

\* return strings
ParseResourcesReturn ==
    /\ resources_pc = "loop"
    /\ child_index = Len(directory)
    /\ resources_pc' = "return"
    /\ UNCHANGED <<directory, child_index, resources_strings, otherThanResources>>

InitResources ==
    /\ directory \in DirectoryInputs /\ child_index = 0
    /\ resources_strings = EmptyDict /\ resources_pc = "loop"
    /\ SheetIdle /\ LangIdle /\ FileIdle /\ ModelIdle /\ MainIdle

NextResources == ParseResourcesChild \/ ParseResourcesReturn

SpecResources == InitResources /\ [][NextResources]_vars

\* the directory name the claim gives a key
ClaimedDirName(key) ==
    IF key = s_default THEN s_values ELSE s_values \o <<"-">> \o key

\* C7: parse_resources has the key "default" only for the child directory
\* named exactly values, and a key c only for a child directory named
\* exactly values-c with c a valid language code; each key maps to the
\* parse_directory result of that directory, which is not empty.
C7_KeysOnlyFromValuesDirs ==
    resources_pc = "return" =>
        \A key \in DOMAIN resources_strings :
            /\ _is_language_valid(key)
            /\ resources_strings[key] # EmptyDict
            /\ \E i \in 1..Len(directory) :
                   /\ directory[i].name = ClaimedDirName(key)
                   /\ resources_strings[key] = parse_directory(directory[i])

-----------------------------------------------------------------------------
(* model.py: Resources.  The model only stores and compares names, texts,  *)
(* comments and quantities, so here each is an atomic string: '' is "".    *)

\* String(name, text, comment)
String(name, text, comment) == [name |-> name, text |-> text, comment |-> comment]

\* StringArrayItem(text, comment)
StringArrayItem(text, comment) == [text |-> text, comment |-> comment]

\* StringArray(name, comment)
StringArray(name, comment) == [name |-> name, comment |-> comment, _items |-> <<>>]

\* what class StringArray and its instances define
StringArrayAttributes ==
    {"name", "comment", "_items", "__init__", "__len__", "__getitem__",
     "add_item", "is_valid"}

\* PluralItem(quantity, text, comment)
PluralItem(quantity, text, comment) ==
    [quantity |-> quantity, text |-> text, comment |-> comment]

\* PluralString(name, comment)
PluralString(name, comment) ==
    [name |-> name, comment |-> comment, _items |-> EmptyDict]

\* the outcome of a call: a value returned, or an exception raised
Returned(op, name, key, value) ==
    [op |-> op, name |-> name, key |-> key, returned |-> value, raised |-> ""]
Raised(op, name, key, exception) ==
    [op |-> op, name |-> name, key |-> key, returned |-> "", raised |-> exception]

count_without_plurals == Cardinality(DOMAIN _strings) + Cardinality(DOMAIN _arrays)

\* Resources.count()
count ==
    Cardinality(DOMAIN _strings) + Cardinality(DOMAIN _arrays)
        + Cardinality(DOMAIN _plurals)

\* Resources.get_string_text(name)
get_string_text(name) ==
    Returned("get_string_text", name, "",
             IF name \in DOMAIN _strings THEN _strings[name].text ELSE "")

\* Resources.get_array_text(name, index): the array's sorted_items is read,
\* an attribute StringArray does not have
get_array_text(name, index) ==
    IF name \notin DOMAIN _arrays
        THEN Returned("get_array_text", name, index, "")
    ELSE IF "sorted_items" \notin StringArrayAttributes
        THEN Raised("get_array_text", name, index, "AttributeError")
    ELSE Returned("get_array_text", name, index,
                  _arrays[name].sorted_items[index + 1].text)

\* Resources.get_plural_text(name, quantity)
get_plural_text(name, quantity) ==
    IF name \notin DOMAIN _plurals
        THEN Returned("get_plural_text", name, quantity, "")
    ELSE LET plural == _plurals[name]
         IN  Returned("get_plural_text", name, quantity,
                      IF quantity \in DOMAIN plural._items
                          THEN plural._items[quantity].text
                          ELSE "")

MaxItems == 2

Names == {"a", "b"}
Texts == {"x", "y"}
Quantities == {"one", "other"}

otherThanModel == <<sheetVars, langVars, fileVars, resourcesVars, mainVars>>

\* Resources.add_string(name, text, comment)
AddString ==
    \E name \in Names, text \in Texts :
        /\ _strings' = (name :> String(name, text, "")) @@ _strings
        /\ added' = added \cup {<<"strings", name>>}
        /\ lookup' = <<>>
        /\ UNCHANGED <<_arrays, _plurals, otherThanModel>>

\* Resources.add_array(StringArray(name, comment))
AddArray ==
    \E name \in Names :
        /\ _arrays' = (name :> StringArray(name, "")) @@ _arrays
        /\ added' = added \cup {<<"arrays", name>>}
        /\ lookup' = <<>>
        /\ UNCHANGED <<_strings, _plurals, otherThanModel>>

\* StringArray.add_item(text, comment) on an array the model holds
ArrayAddItem ==
    \E name \in DOMAIN _arrays :
        /\ Len(_arrays[name]._items) < MaxItems
        /\ _arrays' = [_arrays EXCEPT ![name]._items =
                           Append(@, StringArrayItem("x", ""))]
        /\ lookup' = <<>>
        /\ UNCHANGED <<_strings, _plurals, added, otherThanModel>>

\* Resources.add_plural(PluralString(name, comment))
AddPlural ==
    \E name \in Names :
        /\ _plurals' = (name :> PluralString(name, "")) @@ _plurals
        /\ added' = added \cup {<<"plurals", name>>}
        /\ lookup' = <<>>
        /\ UNCHANGED <<_strings, _arrays, otherThanModel>>

\* PluralString.__setitem__(quantity, PluralItem(...)) on a plural the
\* model holds
PluralSetItem ==
    \E name \in DOMAIN _plurals, quantity \in Quantities :
        /\ _plurals' = [_plurals EXCEPT ![name]._items =
                            (quantity :> PluralItem(quantity, "x", "")) @@ @]
        /\ lookup' = <<>>
        /\ UNCHANGED <<_strings, _arrays, added, otherThanModel>>

GetStringText ==
    \E name \in Names :
        /\ lookup' = get_string_text(name)
        /\ UNCHANGED <<_strings, _arrays, _plurals, added, otherThanModel>>

GetArrayText ==
    \E name \in Names, index \in 0..MaxItems :
        /\ lookup' = get_array_text(name, index)
        /\ UNCHANGED <<_strings, _arrays, _plurals, added, otherThanModel>>

GetPluralText ==
    \E name \in Names, quantity \in Quantities :
        /\ lookup' = get_plural_text(name, quantity)
        /\ UNCHANGED <<_strings, _arrays, _plurals, added, otherThanModel>>

Count ==
    /\ lookup' = Returned("count", "", "", count)
    /\ UNCHANGED <<_strings, _arrays, _plurals, added, otherThanModel>>

\* Resources()
InitModel ==
    /\ _strings = EmptyDict /\ _arrays = EmptyDict /\ _plurals = EmptyDict
    /\ added = {} /\ lookup = <<>>
    /\ SheetIdle /\ LangIdle /\ FileIdle /\ ResourcesIdle /\ MainIdle

NextModel ==
    \/ AddString \/ AddArray \/ ArrayAddItem \/ AddPlural \/ PluralSetItem
    \/ GetStringText \/ GetArrayText \/ GetPluralText \/ Count

SpecModel == InitModel /\ [][NextModel]_vars

\* the looked-up string, array item or plural item is not in the model
Absent ==
    \/ lookup.op = "get_string_text" /\ lookup.name \notin DOMAIN _strings
    \/ /\ lookup.op = "get_array_text"
       /\ \/ lookup.name \notin DOMAIN _arrays
          \/ lookup.key \notin 0..(Len(_arrays[lookup.name]._items) - 1)
    \/ /\ lookup.op = "get_plural_text"
       /\ \/ lookup.name \notin DOMAIN _plurals
          \/ lookup.key \notin DOMAIN _plurals[lookup.name]._items

\* C8: a point lookup of a string, array item or plural item that is not in
\* the model returns the empty string and does not raise.
C8_AbsentLookupReturnsEmpty ==
    (lookup # <<>> /\ Absent) => (lookup.raised = "" /\ lookup.returned = "")

\* C10, as claimed: count() is the number of distinct names stored across
\* the three namespaces.
C10_CountDistinctNames ==
    (lookup # <<>> /\ lookup.op = "count") =>
        lookup.returned = Cardinality({p[2] : p \in added})

\* C10, amended: count() is the number of distinct names of strings plus
\* that of arrays plus that of plurals: a name added to two namespaces is
\* counted in each.
C10_CountNamesPerNamespace ==
    (lookup # <<>> /\ lookup.op = "count") =>
        lookup.returned = Cardinality(added)

\* count() after adds to all three namespaces, one name in two of them
C10_Witness ==
    /\ lookup # <<>> /\ lookup.op = "count"
    /\ DOMAIN _strings = {"a", "b"}
    /\ DOMAIN _arrays = {"a"}
    /\ DOMAIN _plurals = {"b"}
    /\ lookup.returned = 4

-----------------------------------------------------------------------------
(* main.py: upload and download.  The API client and the file writer are   *)
(* outside: a call to one is an entry of calls, its result an input.       *)

s_translation == <<" ", "T", "r", "a", "n", "s", "l", "a", "t", "i", "o", "n">>

\* the functions parser.py defines
ParserAttributes ==
    {"_is_root_valid", "_is_string_valid", "parse_file", "_is_file_valid",
     "parse_directory", "_is_language_valid", "parse_resources",
     "get_languages", "create_language_sheet_values",
     "create_spreadsheet_values", "parse_spreadsheet_values"}

SpreadsheetIds == {<<>>, <<"S">>}
ProjectTitles == {<<>>, <<"A">>}
CreatedIds == {<<"N">>, <<"M">>}
Dirs == {".", "res"}

\* what os.listdir and the files of source_dir may hold
SourceDirInputs ==
    {<<>>,
     <<[name |-> s_values,
        files |-> <<[name |-> s_strings_xml, root |-> StringsRoot(<<"X">>)]>>]>>,
     <<[name |-> <<"v", "a", "l", "u", "e", "s", "-", "f", "r">>,
        files |-> <<[name |-> s_strings_xml, root |-> StringsRoot(<<"Y">>)]>>],
       [name |-> s_values,
        files |-> <<[name |-> s_strings_xml, root |-> StringsRoot(<<"X">>)]>>]>>}

\* what api.get_cells may return
CellsInputs ==
    {<<<<Str(s_id), Str(s_comment), Str(s_default)>>>>,
     <<<<Str(s_id), Str(s_comment), Str(s_default), Str(s_fr)>>,
       <<Str(<<"a">>), None, Str(<<"X">>), Str(<<"Y">>)>>>>}

mainOther == <<strings_by_language, sheet_pc, langVars, fileVars,
               resourcesVars, modelVars>>

\* service = api.get_service()
UploadGetService ==
    /\ main_pc = "upload:23"
    /\ calls' = Append(calls, <<"api.get_service">>)
    /\ main_pc' = "upload:25"
    /\ UNCHANGED <<args, spreadsheet_id, raised, strings, values, mainOther>>

\* if not spreadsheet_id: if not project_title: raise ValueError
UploadCheckArguments ==
    /\ main_pc = "upload:25"
    /\ IF spreadsheet_id = <<>>
           THEN IF args.project_title = <<>>
                    THEN main_pc' = "raised" /\ raised' = "ValueError"
                    ELSE main_pc' = "upload:28" /\ raised' = raised
           ELSE main_pc' = "upload:31" /\ raised' = raised
    /\ UNCHANGED <<args, spreadsheet_id, calls, strings, values, mainOther>>

\* spreadsheet_id = api.create_spreadsheet(service, project_title + ' Translation')
UploadCreateSpreadsheet ==
    /\ main_pc = "upload:28"
    /\ \E created \in CreatedIds :
           /\ spreadsheet_id' = created
           /\ calls' = Append(calls, <<"api.create_spreadsheet",
                                       args.project_title \o s_translation>>)
    /\ main_pc' = "upload:31"
    /\ UNCHANGED <<args, raised, strings, values, mainOther>>

\* strings = parser.parse_resources(source_dir)
UploadParseResources ==
    /\ main_pc = "upload:31"
    /\ \E listing \in SourceDirInputs : strings' = parse_resources(listing)
    /\ main_pc' = "upload:32"
    /\ UNCHANGED <<args, spreadsheet_id, calls, raised, values, mainOther>>

\* values = parser.create_spreadsheet_values(strings)
UploadCreateValues ==
    /\ main_pc = "upload:32"
    /\ IF s_default \in DOMAIN strings
           THEN /\ values' = create_spreadsheet_values(strings)
                /\ main_pc' = "upload:34" /\ raised' = raised
           ELSE /\ values' = values
                /\ main_pc' = "raised" /\ raised' = "KeyError"
    /\ UNCHANGED <<args, spreadsheet_id, calls, strings, mainOther>>

\* result = api.update_cells(service, spreadsheet_id, 'A:Z', {'values': values})
UploadUpdateCells ==
    /\ main_pc = "upload:34"
    /\ calls' = Append(calls, <<"api.update_cells", spreadsheet_id>>)
    /\ main_pc' = "upload:36"
    /\ UNCHANGED <<args, spreadsheet_id, raised, strings, values, mainOther>>

\* print(result)
UploadPrint ==
    /\ main_pc = "upload:36"
    /\ main_pc' = "returned"
    /\ UNCHANGED <<args, spreadsheet_id, calls, raised, strings, values, mainOther>>

\* if not spreadsheet_id: raise ValueError
DownloadCheckArguments ==
    /\ main_pc = "download:53"
    /\ IF spreadsheet_id = <<>>
           THEN main_pc' = "raised" /\ raised' = "ValueError"
           ELSE main_pc' = "download:56" /\ raised' = raised
    /\ UNCHANGED <<args, spreadsheet_id, calls, strings, values, mainOther>>

\* service = api.get_service()
DownloadGetService ==
    /\ main_pc = "download:56"
    /\ calls' = Append(calls, <<"api.get_service">>)
    /\ main_pc' = "download:57"
    /\ UNCHANGED <<args, spreadsheet_id, raised, strings, values, mainOther>>

\* result = api.get_cells(service, spreadsheet_id)
DownloadGetCells ==
    /\ main_pc = "download:57"
    /\ \E result \in CellsInputs : values' = result
    /\ calls' = Append(calls, <<"api.get_cells", spreadsheet_id>>)
    /\ main_pc' = "download:58"
    /\ UNCHANGED <<args, spreadsheet_id, raised, strings, mainOther>>

\* strings_by_language = parser.parse_spreadsheet_result(result): parser.py
\* defines no parse_spreadsheet_result, so the attribute lookup raises and
\* writer.write_strings_to_directory is not reached
DownloadParse ==
    /\ main_pc = "download:58"
    /\ "parse_spreadsheet_result" \notin ParserAttributes
    /\ main_pc' = "raised" /\ raised' = "AttributeError"
    /\ UNCHANGED <<args, spreadsheet_id, calls, strings, values, mainOther>>

InitMain ==
    /\ \/ /\ main_pc = "upload:23"
          /\ args \in [spreadsheet_id : SpreadsheetIds, source_dir : Dirs,
                       project_title : ProjectTitles]
       \/ /\ main_pc = "download:53"
          /\ args \in [spreadsheet_id : SpreadsheetIds, output_dir : Dirs]
    /\ spreadsheet_id = args.spreadsheet_id
    /\ calls = <<>> /\ raised = ""
    /\ strings = EmptyDict /\ values = <<>>
    /\ strings_by_language = EmptyDict /\ sheet_pc = "idle"
    /\ LangIdle /\ FileIdle /\ ResourcesIdle /\ ModelIdle

NextMain ==
    \/ UploadGetService \/ UploadCheckArguments \/ UploadCreateSpreadsheet
    \/ UploadParseResources \/ UploadCreateValues \/ UploadUpdateCells
    \/ UploadPrint
    \/ DownloadCheckArguments \/ DownloadGetService \/ DownloadGetCells
    \/ DownloadParse

SpecMain == InitMain /\ [][NextMain]_vars

\* C9: upload with an empty spreadsheet_id and an empty project_title, and
\* download with an empty spreadsheet_id, raise ValueError before any call
\* to the API client or the file writer.
C9_ValueErrorBeforeAnyCall ==
    raised = "ValueError" => calls = <<>>

====
